---- MODULE Spec2Model ----
(***************************************************************************)
(* Conway's Game of Life on a toroidal grid: the Universe of src/lib.rs.   *)
(* The state is the Universe's three fields; every public operation is an  *)
(* action that applies the operator translated from the method's code.     *)
(***************************************************************************)
EXTENDS Integers, Sequences, FiniteSets

(* ------------------------------ bounds -------------------------------- *)

\* set_width / set_height draw their argument from 0..MaxDim and BigDim.
MaxDim == 3
\* toggle_cell / set_cells draw row and column from 0..MaxCoord.
MaxCoord == 1
\* set_cells draws lists of at most MaxPairs pairs.
MaxPairs == 2
\* A resize is explored only when the buffer it allocates has at most
\* MaxCells cells.
MaxCells == 6
\* Consecutive ticks explored from one seed grid.
MaxGen == 2
\* SpecGrid seeds: dimensions 1..MaxGridDim; every content for grids of at
\* most MaxFullCells cells, the named patterns for all of them.
MaxGridDim == 5
MaxFullCells == 10

(* --------------------------- program constants ------------------------ *)

\* enum Cell { Dead = 0, Alive = 1 }
Dead == 0
Alive == 1
\* Universe::new: let width = 128; let height = 128;
NewWidth == 128
NewHeight == 128

(* ------------------------- u32 arithmetic ----------------------------- *)
\* width, height, row and column are u32.  TLC's integers end at 2^31 - 1
\* and TLC stops with an error on any overflow of its own, so 32-bit values
\* are handled as two 16-bit halves and an expression TLC evaluates without
\* error has its mathematical value.
Word == 2^16
\* The smallest dimension d with d * d = 2^32.
BigDim == Word

Hi(x) == x \div Word
Lo(x) == x % Word

\* a * b in u32 with wrap-around (a release build): the low 32 bits,
\* ((Hi(a)*Lo(b) + Lo(a)*Hi(b)) mod 2^16) * 2^16 + Lo(a)*Lo(b)  (mod 2^32).
MulU32(a, b) ==
    ((Hi(a) * Lo(b) + Lo(a) * Hi(b)) % Word) * Word + Lo(a) * Lo(b)

\* a * b >= 2^32: the product does not fit u32 (a build with overflow
\* checks panics here).
MulOverflows(a, b) ==
    \/ Hi(a) * Hi(b) > 0
    \/ Hi(a) * Lo(b) + Lo(a) * Hi(b) >= Word
    \/ Hi((Hi(a) * Lo(b) + Lo(a) * Hi(b)) * Word + Lo(a) * Lo(b)) >= Word

(* ------------------------------ state --------------------------------- *)

VARIABLES
    width,      \* Universe.width
    height,     \* Universe.height
    cells,      \* Universe.cells: cells[i + 1] is the Vec's element i
    last,       \* the last operation called and how it ended
    seed,       \* the Universe when the current run of ticks began
    gen,        \* the number of ticks since seed
    ret         \* the value the last call returned

vars == <<width, height, cells, last, seed, gen, ret>>

\* The struct Universe as a value.
Universe == [width |-> width, height |-> height, cells |-> cells]

\* A call record: op is the method, fault is "none" or the panic that ended
\* it, row/col are toggle_cell's arguments, n the pairs set_cells applied,
\* rep whether the call repeats the call before it (same method, same
\* arguments).
Call(op, fault, row, col, n, rep) ==
    [op |-> op, fault |-> fault, row |-> row, col |-> col, n |-> n, rep |-> rep]

\* The return value of a method returning (), and of a call that panicked.
Unit == "()"

\* Vec<Cell> indexing: self.cells[idx]
CellAt(u, idx) == u.cells[idx + 1]
InBuffer(u, idx) == idx < Len(u.cells)

\* (0..n).map(|_| Cell::Dead).collect()
DeadCells(n) == [i \in 1..n |-> Dead]

(* ------------------------------ Cell ---------------------------------- *)

\* A toggle that only ever switches a cell on.
ToggleToAlive(c) == Alive

\* Cell::toggle
Toggle(c) == IF c = Alive THEN Dead ELSE Alive

(* --------------------------- Universe::new ---------------------------- *)

\* The seed pattern with "and" for "or".
NewBothDivisors ==
    [width  |-> NewWidth,
     height |-> NewHeight,
     cells  |-> [i \in 1..(NewWidth * NewHeight) |->
                    IF (i - 1) % 2 = 0 /\ (i - 1) % 7 = 0 THEN Alive ELSE Dead]]

\* pub fn new() -> Universe
New ==
    [width  |-> NewWidth,
     height |-> NewHeight,
     cells  |-> [i \in 1..(NewWidth * NewHeight) |->
                    IF (i - 1) % 2 = 0 \/ (i - 1) % 7 = 0 THEN Alive ELSE Dead]]

(* ------------------------- Universe::get_index ------------------------ *)

\* row * self.width + column does not fit u32: a build with overflow checks
\* panics in get_index.
IndexOverflows(u, row, column) ==
    \/ MulOverflows(row, u.width)
    \/ Hi(MulU32(row, u.width)) + Hi(column)
           + Hi(Lo(MulU32(row, u.width)) + Lo(column)) >= Word

\* The index of a layout by columns: column * self.height + row.
GetIndexColumnMajor(u, row, column) == MulU32(column, u.height) + row

\* (row * self.width + column) as usize, in a build that wraps.
get_index(u, row, column) == MulU32(row, u.width) + column

(* --------------------- Universe::live_neighbor_count ------------------ *)

\* The wrap-around with the other dimension's modulus missing its "+ dim":
\* (coord as i32 + d) as u32 % dim, where -1 as u32 is 2^32 - 1.
WrapCoordNoBias(coord, d, dim) ==
    IF coord + d < 0
    THEN (((Word - 1) % dim) * (Word % dim) + (Word - 1)) % dim
    ELSE (coord + d) % dim

\* (coord as i32 + d + dim as i32) as u32 % dim.  For dim >= 1 the sum is
\* in 0..2^31-1, where both casts keep the value.
WrapCoord(coord, d, dim) == (coord + d + dim) % dim

\* The loops without their "continue": all nine (d_r, d_c) pairs.
OffsetsWithCentre ==
    << <<-1, -1>>, <<-1, 0>>, <<-1, 1>>, <<0, -1>>, <<0, 0>>,
       <<0, 1>>, <<1, -1>>, <<1, 0>>, <<1, 1>> >>

\* The offsets of the four neighbours that share an edge: the loops without
\* their diagonals.
OffsetsNoDiagonals ==
    << <<-1, 0>>, <<0, -1>>, <<0, 1>>, <<1, 0>> >>

\* The (d_r, d_c) pairs in the order of the two nested loops, without (0, 0).
Offsets ==
    << <<-1, -1>>, <<-1, 0>>, <<-1, 1>>, <<0, -1>>,
       <<0, 1>>, <<1, -1>>, <<1, 0>>, <<1, 1>> >>

NeighborIndex(u, row, column, k) ==
    get_index(u, WrapCoord(row, Offsets[k][1], u.height),
                 WrapCoord(column, Offsets[k][2], u.width))

RECURSIVE CountFrom(_, _, _, _)
CountFrom(u, row, column, k) ==
    IF k > Len(Offsets) THEN 0
    ELSE CellAt(u, NeighborIndex(u, row, column, k))
         + CountFrom(u, row, column, k + 1)

\* The count without the "continue" on d_r == 0 && d_c == 0: the cell counts
\* itself.
CountWithSelf(u, row, column) ==
    CountFrom(u, row, column, 1) + CellAt(u, get_index(u, row, column))

\* fn live_neighbor_count(&self, row: u32, column: u32) -> u8
live_neighbor_count(u, row, column) == CountFrom(u, row, column, 1)

\* live_neighbor_count's "% self.height" and "% self.width" with a zero
\* divisor: a panic in every build.
ZeroModulus(u) == u.height = 0 \/ u.width = 0

\* Some self.cells[...] of live_neighbor_count is out of the buffer.
NeighborOutOfBuffer(u, row, column) ==
    \E k \in 1..Len(Offsets) : ~InBuffer(u, NeighborIndex(u, row, column, k))

(* --------------------------- Universe::tick --------------------------- *)

\* The match with overpopulation from 3 neighbours on (x >= 3 for x > 3).
TransitionOverpopulationAtThree(cell, live_neighbors) ==
    CASE cell = Alive /\ live_neighbors < 2 -> Dead
      [] cell = Alive /\ live_neighbors = 2 -> Alive
      [] cell = Alive /\ live_neighbors >= 3 -> Dead
      [] cell = Dead /\ live_neighbors = 3 -> Alive
      [] OTHER -> cell

\* The match without its underpopulation arm.
TransitionNoUnderpopulation(cell, live_neighbors) ==
    CASE cell = Alive /\ live_neighbors \in {2, 3} -> Alive
      [] cell = Alive /\ live_neighbors > 3 -> Dead
      [] cell = Dead /\ live_neighbors = 3 -> Alive
      [] OTHER -> cell

\* The match of tick.
Transition(cell, live_neighbors) ==
    CASE cell = Alive /\ live_neighbors < 2 -> Dead
      [] cell = Alive /\ live_neighbors \in {2, 3} -> Alive
      [] cell = Alive /\ live_neighbors > 3 -> Dead
      [] cell = Dead /\ live_neighbors = 3 -> Alive
      [] OTHER -> cell

\* tick's two nested loops from (row, column) on, and its last statement.
\* next_gen is the clone as written so far; cells and neighbour counts are
\* read from u.cells, the pre-tick buffer; self.cells = next_gen ends the
\* call.  A panic (an index out of the buffer, a modulo by zero) leaves
\* self.cells as it was.
\* A row of a zero-width grid has no iteration.
RECURSIVE TickLoop(_, _, _, _)
TickLoop(u, next_gen, row, column) ==
    IF row >= u.height \/ u.width = 0
    THEN [u |-> [u EXCEPT !.cells = next_gen], fault |-> "none"]
    ELSE IF column >= u.width THEN TickLoop(u, next_gen, row + 1, 0)
    ELSE IF ~InBuffer(u, get_index(u, row, column))
         THEN [u |-> u, fault |-> "index"]
    ELSE IF ZeroModulus(u)
         THEN [u |-> u, fault |-> "modulo"]
    ELSE IF NeighborOutOfBuffer(u, row, column)
         THEN [u |-> u, fault |-> "index"]
         ELSE TickLoop(u,
                       [next_gen EXCEPT ![get_index(u, row, column) + 1] =
                           Transition(CellAt(u, get_index(u, row, column)),
                                      live_neighbor_count(u, row, column))],
                       row, column + 1)

\* The same loops with every read made from the buffer being written (an
\* update in place); orig is the Universe to restore on a panic.
RECURSIVE TickLoopInPlace(_, _, _, _)
TickLoopInPlace(orig, u, row, column) ==
    IF row >= u.height \/ u.width = 0 THEN [u |-> u, fault |-> "none"]
    ELSE IF column >= u.width THEN TickLoopInPlace(orig, u, row + 1, 0)
    ELSE IF \/ ~InBuffer(u, get_index(u, row, column))
            \/ NeighborOutOfBuffer(u, row, column)
         THEN [u |-> orig, fault |-> "index"]
         ELSE TickLoopInPlace(orig,
                 [u EXCEPT !.cells[get_index(u, row, column) + 1] =
                     Transition(CellAt(u, get_index(u, row, column)),
                                live_neighbor_count(u, row, column))],
                 row, column + 1)

TickInPlace(u) == TickLoopInPlace(u, u, 0, 0)

\* Universe::tick: let mut next_gen = self.cells.clone(); the loops.
Tick(u) == TickLoop(u, u.cells, 0, 0)

(* ------------------ Universe::set_width / set_height ------------------ *)

\* self.width = width; self.cells = (0..(self.width * self.height))
\*     .map(|_| Cell::Dead).collect();
\* The product is u32: with overflow checks (checked) it panics after the
\* field is stored and before the buffer is replaced, otherwise it wraps.
set_width(u, w, checked) ==
    IF checked /\ MulOverflows(w, u.height)
    THEN [u |-> [u EXCEPT !.width = w], fault |-> "overflow"]
    ELSE [u |-> [width |-> w, height |-> u.height,
                 cells |-> DeadCells(MulU32(w, u.height))],
          fault |-> "none"]

set_height(u, h, checked) ==
    IF checked /\ MulOverflows(u.width, h)
    THEN [u |-> [u EXCEPT !.height = h], fault |-> "overflow"]
    ELSE [u |-> [width |-> u.width, height |-> h,
                 cells |-> DeadCells(MulU32(u.width, h))],
          fault |-> "none"]

(* ------------------------ Universe::toggle_cell ----------------------- *)

\* let idx = self.get_index(row, col); self.cells[idx].toggle();
toggle_cell(u, row, col) ==
    LET idx == get_index(u, row, col) IN
    IF InBuffer(u, idx)
    THEN [u |-> [u EXCEPT !.cells[idx + 1] = Toggle(@)], fault |-> "none"]
    ELSE [u |-> u, fault |-> "index"]

(* ------------------------- Universe::set_cells ------------------------ *)

\* for (row, col) in cells.iter().cloned() { self.cells[idx] = Cell::Alive }
\* from the k-th pair on; n is the number of pairs applied.
RECURSIVE SetCellsFrom(_, _, _)
SetCellsFrom(u, list, k) ==
    IF k > Len(list) THEN [u |-> u, fault |-> "none", n |-> k - 1]
    ELSE LET idx == get_index(u, list[k][1], list[k][2]) IN
         IF InBuffer(u, idx)
         THEN SetCellsFrom([u EXCEPT !.cells[idx + 1] = Alive], list, k + 1)
         ELSE [u |-> u, fault |-> "index", n |-> k - 1]

\* set_cells as a transaction: a panic restores the buffer of the call's
\* start.
SetCellsRollback(u, list) ==
    LET r == SetCellsFrom(u, list, 1) IN
    IF r.fault = "none" THEN r ELSE [r EXCEPT !.u = u]

set_cells(u, list) == SetCellsFrom(u, list, 1)

(* ---------------- Universe::width / height / get_cells ---------------- *)
\* The methods on &self: the Universe they leave, how they end and what
\* they return.

\* pub fn width(&self) -> u32 { self.width }
Width(u) == [u |-> u, fault |-> "none", ret |-> u.width]

\* pub fn height(&self) -> u32 { self.height }
Height(u) == [u |-> u, fault |-> "none", ret |-> u.height]

\* pub fn get_cells(&self) -> &[Cell] { &self.cells }
get_cells(u) == [u |-> u, fault |-> "none", ret |-> u.cells]

(* ------------------- Universe::render / Display::fmt ------------------ *)
\* A String is the sequence of its characters.

\* let symbol = if cell == Cell::Alive { '\u{25FC}' } else { '\u{25FB}' };
AliveGlyph == "U+25FC"
DeadGlyph == "U+25FB"
NewLine == "\n"
Symbol(cell) == IF cell = Alive THEN AliveGlyph ELSE DeadGlyph

\* self.cells.as_slice().chunks(self.width as usize): the slice cut into
\* runs of width elements, the last one shorter when the length is not a
\* multiple of width.  NumChunks is their number, Chunk(u, j) the j-th of
\* them (from 0) written as the loop body writes it: the symbol of each
\* cell, then a newline.
NumChunks(u) == (Len(u.cells) + u.width - 1) \div u.width

Chunk(u, j) ==
    LET n == IF Len(u.cells) - j * u.width < u.width
             THEN Len(u.cells) - j * u.width ELSE u.width
    IN [i \in 1..n |-> Symbol(CellAt(u, j * u.width + i - 1))] \o <<NewLine>>

\* What the loop "for line in ...chunks(...)" writes for the n chunks from
\* the one numbered first on, in their order (the run is split in two
\* halves and the halves' texts are joined).
RECURSIVE FmtChunks(_, _, _)
FmtChunks(u, first, n) ==
    IF n = 0 THEN <<>>
    ELSE IF n = 1 THEN Chunk(u, first)
    ELSE FmtChunks(u, first, n \div 2)
         \o FmtChunks(u, first + n \div 2, n - n \div 2)

\* Display::fmt for a width of at least 1.
fmt(u) == FmtChunks(u, 0, NumChunks(u))

\* A render that takes the cells out of the Universe to format them
\* (self.cells.drain(..) for self.cells.as_slice()).
RenderDraining(u) ==
    IF u.width = 0
    THEN [u |-> u, fault |-> "chunk", ret |-> Unit]
    ELSE [u |-> [u EXCEPT !.cells = <<>>], fault |-> "none",
          ret |-> fmt(u)]

\* self.to_string(): chunks panics when the chunk size is 0.
render(u) ==
    IF u.width = 0
    THEN [u |-> u, fault |-> "chunk", ret |-> Unit]
    ELSE [u |-> u, fault |-> "none", ret |-> fmt(u)]

(* ------------------------------ inputs -------------------------------- *)

DimChoices == (0..MaxDim) \cup {BigDim}
Coords == (0..MaxCoord) \X (0..MaxCoord)

RECURSIVE ListsOfLen(_)
ListsOfLen(n) ==
    IF n = 0 THEN {<<>>}
    ELSE {Append(l, p) : l \in ListsOfLen(n - 1), p \in Coords}

PairLists == UNION {ListsOfLen(n) : n \in 0..MaxPairs}

\* A resize is explored when its new buffer has at most MaxCells cells (a
\* panicking resize allocates none), and in a checked build only where it
\* differs from the wrapping one.
Resizable(w, h, checked) ==
    IF checked THEN MulOverflows(w, h) ELSE MulU32(w, h) <= MaxCells

\* Grids whose cells the model edits and steps: up to the seeds' size.
Explored == Len(cells) <= MaxGridDim * MaxGridDim

(* ------------------------------ actions ------------------------------- *)

\* The operation's result becomes the Universe; a run of ticks starts anew.
Becomes(r, call) ==
    /\ width' = r.u.width
    /\ height' = r.u.height
    /\ cells' = r.u.cells
    /\ last' = call
    /\ seed' = r.u
    /\ gen' = 0
    /\ ret' = Unit

Init ==
    /\ width = New.width
    /\ height = New.height
    /\ cells = New.cells
    /\ last = Call("new", "none", 0, 0, 0, FALSE)
    /\ seed = New
    /\ gen = 0
    /\ ret = Unit

\* Universe::new() again: the caller replaces its Universe by a fresh one.
NewAction ==
    /\ last.op # "new"
    /\ Becomes([u |-> New, fault |-> "none"], Call("new", "none", 0, 0, 0, FALSE))

SetWidthAction ==
    \E w \in DimChoices, checked \in BOOLEAN :
        /\ Resizable(w, height, checked)
        /\ \E r \in {set_width(Universe, w, checked)} :
           Becomes(r, Call("set_width", r.fault, 0, 0, 0, FALSE))

SetHeightAction ==
    \E h \in DimChoices, checked \in BOOLEAN :
        /\ Resizable(width, h, checked)
        /\ \E r \in {set_height(Universe, h, checked)} :
           Becomes(r, Call("set_height", r.fault, 0, 0, 0, FALSE))

ToggleCellAction ==
    \E rc \in Coords :
        /\ Explored
        /\ \E r \in {toggle_cell(Universe, rc[1], rc[2])} :
           Becomes(r, Call("toggle_cell", r.fault, rc[1], rc[2], 0,
                           /\ last.op = "toggle_cell"
                           /\ last.row = rc[1]
                           /\ last.col = rc[2]))

SetCellsAction ==
    \E list \in PairLists :
        /\ Explored
        /\ \E r \in {set_cells(Universe, list)} :
           Becomes(r, Call("set_cells", r.fault, 0, 0, r.n, FALSE))

TickAction ==
    /\ Explored
    /\ gen < MaxGen
    /\ \E r \in {Tick(Universe)} :
        /\ width' = r.u.width
        /\ height' = r.u.height
        /\ cells' = r.u.cells
        /\ last' = Call("tick", r.fault, 0, 0, 0, FALSE)
        /\ seed' = seed
        /\ gen' = gen + 1
        /\ ret' = Unit

\* A method on &self has run: its result is returned, and the run of ticks
\* goes on.
Returns(r, op) ==
    /\ width' = r.u.width
    /\ height' = r.u.height
    /\ cells' = r.u.cells
    /\ last' = Call(op, r.fault, 0, 0, 0, FALSE)
    /\ ret' = r.ret
    /\ UNCHANGED <<seed, gen>>

WidthAction == \E r \in {Width(Universe)} : Returns(r, "width")

HeightAction == \E r \in {Height(Universe)} : Returns(r, "height")

GetCellsAction == \E r \in {get_cells(Universe)} : Returns(r, "get_cells")

RenderAction == \E r \in {render(Universe)} : Returns(r, "render")

Next ==
    \/ NewAction
    \/ SetWidthAction
    \/ SetHeightAction
    \/ ToggleCellAction
    \/ SetCellsAction
    \/ TickAction
    \/ WidthAction
    \/ HeightAction
    \/ GetCellsAction
    \/ RenderAction

Spec == Init /\ [][Next]_vars

(* ------------------------- seeded grids (SpecGrid) -------------------- *)
\* Every grid below is one the program reaches by set_width, set_height and
\* set_cells; SpecGrid starts from any of them and steps it with tick.

GridDims == (1..MaxGridDim) \X (1..MaxGridDim)

\* The grid of w x h whose live cells are the (row, column) pairs of A.
GridOf(w, h, A) ==
    [width |-> w, height |-> h,
     cells |-> [i \in 1..(w * h) |->
                   IF <<(i - 1) \div w, (i - 1) % w>> \in A THEN Alive ELSE Dead]]

\* The 2x2 block with top-left cell (r, c), wrapped.
BlockAt(w, h, r, c) ==
    {<<r, c>>, <<r, (c + 1) % w>>, <<(r + 1) % h, c>>, <<(r + 1) % h, (c + 1) % w>>}
\* The horizontal and the vertical triple centred on (r, c), wrapped.
RowTripleAt(w, h, r, c) == {<<r, (c + w - 1) % w>>, <<r, c>>, <<r, (c + 1) % w>>}
ColTripleAt(w, h, r, c) == {<<(r + h - 1) % h, c>>, <<r, c>>, <<(r + 1) % h, c>>}

Positions(w, h) == (0..(h - 1)) \X (0..(w - 1))

PatternSeeds ==
    UNION {
        {GridOf(d[1], d[2], {}), GridOf(d[1], d[2], Positions(d[1], d[2]))}
        \cup {GridOf(d[1], d[2], {p}) : p \in Positions(d[1], d[2])}
        \cup {GridOf(d[1], d[2], BlockAt(d[1], d[2], p[1], p[2])) :
                 p \in Positions(d[1], d[2])}
        \cup {GridOf(d[1], d[2], RowTripleAt(d[1], d[2], p[1], p[2])) :
                 p \in Positions(d[1], d[2])}
        : d \in GridDims}

FullSeeds ==
    UNION {
        {[width |-> d[1], height |-> d[2], cells |-> c] :
            c \in [1..(d[1] * d[2]) -> {Dead, Alive}]}
        : d \in {e \in GridDims : e[1] * e[2] <= MaxFullCells}}

Seeds == PatternSeeds \cup FullSeeds

InitGrid ==
    \E u \in Seeds :
        /\ width = u.width
        /\ height = u.height
        /\ cells = u.cells
        /\ last = Call("seed", "none", 0, 0, 0, FALSE)
        /\ seed = u
        /\ gen = 0
        /\ ret = Unit

NextGrid == TickAction

SpecGrid == InitGrid /\ [][NextGrid]_vars

(* ============================ properties ============================== *)

\* n = w * h, stated without forming a product beyond TLC's integers.
IsProduct(n, w, h) ==
    IF w = 0 \/ h = 0 THEN n = 0 ELSE n % w = 0 /\ n \div w = h

AllCells(u, c) == \A i \in 1..Len(u.cells) : u.cells[i] = c
InRange(u, row, col) == row < u.height /\ col < u.width
\* The (row, column) pairs of a list.
Named(list) == {list[k] : k \in 1..Len(list)}
AllInRange(u, list) == \A p \in Named(list) : InRange(u, p[1], p[2])
\* The in-range (row, column) pairs of an explored grid.
Upto(n) == 0..((IF n > MaxGridDim THEN MaxGridDim + 1 ELSE n) - 1)
Places(u) == Upto(u.height) \X Upto(u.width)

\* The cell at (row, column), at linear index row * width + column, or
\* Absent when the buffer has no such element.
Absent == 0 - 1
Content(u, row, col) ==
    IF row * u.width + col < Len(u.cells)
    THEN u.cells[row * u.width + col + 1] ELSE Absent

\* The buffer length is the wrapped product whenever the last call did not
\* panic, and the true product unless a dimension is BigDim.
LengthIsWrappedProduct ==
    /\ last.fault # "overflow" => Len(cells) = MulU32(width, height)
    /\ ~MulOverflows(width, height) => IsProduct(Len(cells), width, height)

(* ------------------------------- C1 ----------------------------------- *)
\* C1: in every state reachable from new() by set_width, set_height, tick,
\* toggle_cell and set_cells, the length of the cell buffer equals
\* width * height.
C1_LengthIsWidthTimesHeight == IsProduct(Len(cells), width, height)

(* ------------------------------- C3 ----------------------------------- *)
\* What set_width(w) / set_height(h) must leave, from Universe u.
Resized(u, r, w, h) ==
    /\ r.fault = "none"
    /\ r.u.width = w
    /\ r.u.height = h
    /\ IsProduct(Len(r.u.cells), w, h)
    /\ AllCells(r.u, Dead)

\* C3: after set_width(w) (set_height(h)) from any reachable state the
\* stored width is w (height is h), the other dimension is unchanged, the
\* buffer length is w * height (width * h) and every cell is Dead, also when
\* the new value equals the old one.
C3_ResizeWipes ==
    /\ \A w \in DimChoices, checked \in BOOLEAN :
          Resizable(w, height, checked) =>
              \A r \in {set_width(Universe, w, checked)} :
                  Resized(Universe, r, w, height)
    /\ \A h \in DimChoices, checked \in BOOLEAN :
          Resizable(width, h, checked) =>
              \A r \in {set_height(Universe, h, checked)} :
                  Resized(Universe, r, width, h)
    /\ last.op \in {"set_width", "set_height"} =>
          /\ last.fault = "none"
          /\ IsProduct(Len(cells), width, height)
          /\ AllCells(Universe, Dead)

\* C3 for the resizes whose product fits u32.
ResizeWipesWhenFits ==
    /\ \A w \in DimChoices :
          (~MulOverflows(w, height) /\ Resizable(w, height, FALSE)) =>
              \A r \in {set_width(Universe, w, FALSE)} :
                  Resized(Universe, r, w, height)
    /\ \A h \in DimChoices :
          (~MulOverflows(width, h) /\ Resizable(width, h, FALSE)) =>
              \A r \in {set_height(Universe, h, FALSE)} :
                  Resized(Universe, r, width, h)
    /\ (last.op \in {"set_width", "set_height"} /\ ~MulOverflows(width, height)) =>
          /\ last.fault = "none"
          /\ IsProduct(Len(cells), width, height)
          /\ AllCells(Universe, Dead)

(* ------------------------------- C4 ----------------------------------- *)
\* C4: new() returns width = 128, height = 128 and 16384 cells, the cell at
\* flat index i Alive exactly when i % 2 = 0 or i % 7 = 0 and Dead
\* otherwise; every call of new() yields this same state.
C4_NewIsTheSeedPattern ==
    last.op = "new" =>
        /\ width = 128
        /\ height = 128
        /\ Len(cells) = 16384
        /\ \A i \in 0..16383 :
              /\ cells[i + 1] \in {Dead, Alive}
              /\ cells[i + 1] = Alive <=> (i % 2 = 0 \/ i % 7 = 0)

\* new() has returned; index 7 is Alive by the rule of 7 alone, 14 by both,
\* 4 by the rule of 2 alone, and 1 is Dead.
C4_Witness ==
    /\ last.op = "new"
    /\ cells[7 + 1] = Alive
    /\ cells[14 + 1] = Alive
    /\ cells[4 + 1] = Alive
    /\ cells[1 + 1] = Dead

(* ------------------------------- C5 ----------------------------------- *)
\* C5: for every reachable state and every in-range (r, c), toggle_cell(r, c)
\* called twice in a row returns the whole Universe (every cell, width and
\* height) to the state before the first call.
C5_ToggleTwiceRestores ==
    \A rc \in Coords :
        InRange(Universe, rc[1], rc[2]) =>
            toggle_cell(toggle_cell(Universe, rc[1], rc[2]).u,
                        rc[1], rc[2]).u = Universe

\* The second of two toggle_cell calls on one in-range cell has returned,
\* on a grid with another cell beside it.
C5_Witness ==
    /\ last.op = "toggle_cell"
    /\ last.rep
    /\ last.fault = "none"
    /\ InRange(Universe, last.row, last.col)
    /\ Len(cells) >= 2
    /\ \E i \in 1..Len(cells) : cells[i] = Alive

(* ------------------------------- C6 ----------------------------------- *)
\* C6: for every reachable state and every list of in-range pairs (any
\* length, duplicates and already-Alive cells allowed), after set_cells the
\* cells named in the list are Alive, every other cell has its prior value,
\* and width and height are unchanged.
SetCellsFrame(u, r, list) ==
    /\ r.fault = "none"
    /\ r.u.width = u.width
    /\ r.u.height = u.height
    /\ Len(r.u.cells) = Len(u.cells)
    /\ \A p \in Places(u) :
          Content(r.u, p[1], p[2]) =
              IF p \in Named(list) THEN Alive ELSE Content(u, p[1], p[2])

C6_SetCellsSetsOnlyNamed ==
    Explored =>
        \A list \in PairLists :
            AllInRange(Universe, list) =>
                \A r \in {set_cells(Universe, list)} :
                    SetCellsFrame(Universe, r, list)
\* C6 in the states whose product fits u32.
SetCellsFrameWhenFits ==
    ~MulOverflows(width, height) => C6_SetCellsSetsOnlyNamed

(* ------------------------------- C2 ----------------------------------- *)
\* The rule as the claim words it.
Rule(cell, n) ==
    IF cell = Alive /\ n < 2 THEN Dead
    ELSE IF cell = Alive /\ n \in {2, 3} THEN Alive
    ELSE IF cell = Alive /\ n > 3 THEN Dead
    ELSE IF cell = Dead /\ n = 3 THEN Alive
    ELSE cell

\* v is u after one tick: every cell is Rule of its value and its live
\* neighbour count in u, and the dimensions are those of u.
IsNextGeneration(u, v) ==
    /\ v.width = u.width
    /\ v.height = u.height
    /\ Len(v.cells) = Len(u.cells)
    /\ \A p \in Places(u) :
          Content(v, p[1], p[2]) =
              Rule(Content(u, p[1], p[2]), live_neighbor_count(u, p[1], p[2]))

\* C2: for every grid with width >= 1 and height >= 1, each cell after tick
\* is the rule applied to that cell's pre-tick value and pre-tick live
\* neighbour count; no result depends on a value written during the tick.
C2_TickIsSimultaneous ==
    /\ (width >= 1 /\ height >= 1) =>
          \A r \in {Tick(Universe)} :
              r.fault = "none" /\ IsNextGeneration(Universe, r.u)
    /\ (last.op = "tick" /\ gen = 1) =>
          last.fault = "none" /\ IsNextGeneration(seed, Universe)

\* One tick has run in which a cell died of underpopulation, one survived,
\* one died of overpopulation and one was born.
C2_Witness ==
    /\ last.op = "tick"
    /\ gen = 1
    /\ \E p1, p2, p3, p4 \in Places(seed) :
          /\ Content(seed, p1[1], p1[2]) = Alive
          /\ live_neighbor_count(seed, p1[1], p1[2]) < 2
          /\ Content(Universe, p1[1], p1[2]) = Dead
          /\ Content(seed, p2[1], p2[2]) = Alive
          /\ live_neighbor_count(seed, p2[1], p2[2]) \in {2, 3}
          /\ Content(Universe, p2[1], p2[2]) = Alive
          /\ Content(seed, p3[1], p3[2]) = Alive
          /\ live_neighbor_count(seed, p3[1], p3[2]) > 3
          /\ Content(Universe, p3[1], p3[2]) = Dead
          /\ Content(seed, p4[1], p4[2]) = Dead
          /\ live_neighbor_count(seed, p4[1], p4[2]) = 3
          /\ Content(Universe, p4[1], p4[2]) = Alive

(* ------------------------------- C7 ----------------------------------- *)
\* C7: on a grid of any size >= 1x1, live_neighbor_count is 0 for every cell
\* when all cells are Dead and 8 for every cell, corners and edges
\* included, when all cells are Alive.
C7_UniformGridCounts ==
    (width >= 1 /\ height >= 1) =>
        /\ AllCells(Universe, Dead) =>
              \A p \in Places(Universe) :
                  live_neighbor_count(Universe, p[1], p[2]) = 0
        /\ AllCells(Universe, Alive) =>
              \A p \in Places(Universe) :
                  live_neighbor_count(Universe, p[1], p[2]) = 8

\* An all-Alive grid that is not square and has corners distinct from edges.
C7_Witness ==
    /\ AllCells(Universe, Alive)
    /\ width >= 3
    /\ height >= 4
    /\ width # height
    /\ live_neighbor_count(Universe, 0, 0) = 8
    /\ live_neighbor_count(Universe, height - 1, width - 1) = 8

(* ------------------------------- C8 ----------------------------------- *)
\* The (row, column) pairs of the Alive cells.
Live(u) == {p \in Places(u) : Content(u, p[1], p[2]) = Alive}
\* The seed's Alive cells are n in number and are exactly those of A.
SeedIs(n, A) == Cardinality(Live(seed)) = n /\ Live(seed) = A

\* The seed's only Alive cells are a 2x2 block (possibly across the edge).
SeedIsBlock ==
    /\ Cardinality(Live(seed)) = 4
    /\ \E p \in Places(seed) :
          Live(seed) = BlockAt(seed.width, seed.height, p[1], p[2])

\* C8: on a grid with width >= 4 and height >= 4 whose only Alive cells form
\* a 2x2 block at any position, wrapped or not, tick leaves the grid
\* unchanged, and so does any number of consecutive ticks.
C8_BlockIsStill ==
    (seed.width >= 4 /\ seed.height >= 4 /\ SeedIsBlock) =>
        /\ Universe = seed
        /\ last.fault = "none"
        /\ Tick(Universe).u = Universe

\* Two ticks have run on a block that straddles both wrap-around edges.
C8_Witness ==
    /\ last.op = "tick"
    /\ gen >= 2
    /\ seed.width >= 4
    /\ seed.height >= 4
    /\ seed.width # seed.height
    /\ SeedIs(4, BlockAt(seed.width, seed.height, seed.height - 1, seed.width - 1))
    /\ Universe = seed

(* ------------------------------- C9 ----------------------------------- *)
\* C9: on a grid with width >= 5 and height >= 5 whose only Alive cells are
\* the horizontal triple (r, c-1), (r, c), (r, c+1), columns wrapped, one
\* tick yields exactly the vertical triple (r-1, c), (r, c), (r+1, c), rows
\* wrapped, which differs from the original, and a second tick yields
\* exactly the original.
C9_BlinkerOscillates ==
    (seed.width >= 5 /\ seed.height >= 5 /\ Cardinality(Live(seed)) = 3) =>
      \A p \in Places(seed) :
        Live(seed) = RowTripleAt(seed.width, seed.height, p[1], p[2]) =>
            /\ last.fault = "none"
            /\ gen = 1 =>
                  /\ Universe = GridOf(seed.width, seed.height,
                        ColTripleAt(seed.width, seed.height, p[1], p[2]))
                  /\ Universe # seed
            /\ gen = 2 => Universe = seed

\* The second tick has run on a horizontal triple whose centre is in a
\* corner, so that it wraps in both directions.
C9_Witness ==
    /\ last.op = "tick"
    /\ gen = 2
    /\ seed.width >= 5
    /\ seed.height >= 5
    /\ SeedIs(3, RowTripleAt(seed.width, seed.height, 0, 0))
    /\ Universe = seed

(* ------------------------------- C10 ---------------------------------- *)
\* C10: on every grid with width >= 3 and height >= 3 (the 3x3 grid with
\* its centre cell among them) containing exactly one Alive cell, one tick
\* yields an all-Dead grid.
C10_LoneCellDies ==
    (/\ seed.width >= 3
     /\ seed.height >= 3
     /\ Cardinality(Live(seed)) = 1
     /\ gen = 1) =>
        last.fault = "none" /\ AllCells(Universe, Dead)

\* One tick has run on the 3x3 grid whose only Alive cell was the centre.
C10_Witness ==
    /\ last.op = "tick"
    /\ gen = 1
    /\ seed = GridOf(3, 3, {<<1, 1>>})
    /\ AllCells(Universe, Dead)

(* ------------------------------- C11 ---------------------------------- *)
\* str is height lines, each of width glyphs and a newline, the glyph at
\* line r, position c being that of the cell at index r * width + c.
IsRendering(u, str) ==
    /\ IsProduct(Len(str), u.height, u.width + 1)
    /\ \A r \in 0..(u.height - 1) :
          /\ str[r * (u.width + 1) + u.width + 1] = NewLine
          /\ \A c \in 0..(u.width - 1) :
                /\ str[r * (u.width + 1) + c + 1] \in {AliveGlyph, DeadGlyph}
                /\ str[r * (u.width + 1) + c + 1] = AliveGlyph
                      <=> Content(u, r, c) = Alive

\* C11: in every reachable state, those reached by set_width(0) or
\* set_height(0) included, render() completes and returns height lines, each
\* of width glyphs and a newline, the glyph at line r, position c being the
\* Alive glyph exactly when the cell at index r * width + c is Alive.
C11_RenderIsTheGrid ==
    /\ \A r \in {render(Universe)} :
          r.fault = "none" /\ IsRendering(Universe, r.ret)
    /\ last.op = "render" =>
          last.fault = "none" /\ IsRendering(Universe, ret)

\* C11 in the states with width >= 1 whose product fits u32.
RenderIsTheGridWhenWide ==
    (width >= 1 /\ ~MulOverflows(width, height)) => C11_RenderIsTheGrid

\* render() has returned the text of a grid with cells of both kinds.
RenderedBothGlyphs ==
    /\ last.op = "render"
    /\ last.fault = "none"
    /\ width >= 2
    /\ height >= 2
    /\ \E i, j \in 1..Len(ret) : ret[i] = AliveGlyph /\ ret[j] = DeadGlyph

(* ------------------------------- C12 ---------------------------------- *)
\* C12: toggle_cell performs no wrap-around: in every reachable state
\* toggle_cell(row, column) with row >= height or column >= width is an
\* error outcome that flips no cell (a column >= width with
\* row * width + column inside the buffer does not flip the cell of another
\* row) and leaves the grid unchanged.
C12_ToggleOutOfRangeIsAnError ==
    /\ \A rc \in Coords :
          ~InRange(Universe, rc[1], rc[2]) =>
              \A r \in {toggle_cell(Universe, rc[1], rc[2])} :
                  r.fault # "none" /\ r.u = Universe
    /\ (last.op = "toggle_cell" /\ ~InRange(Universe, last.row, last.col)) =>
          last.fault # "none"

\* C12 for the out-of-range calls whose index is outside the buffer.
ToggleOutOfBufferIsAnError ==
    \A rc \in Coords :
        ~InBuffer(Universe, get_index(Universe, rc[1], rc[2])) =>
            \A r \in {toggle_cell(Universe, rc[1], rc[2])} :
                r.fault = "index" /\ r.u = Universe

(* ------------------------------- C13 ---------------------------------- *)
\* The linear indices row * width + column of the first n pairs of list.
IndicesOf(u, list, n) == {list[k][1] * u.width + list[k][2] : k \in 1..n}

\* C13: set_cells processes its pairs in list order without rollback: when
\* the k-th pair makes the call fault because its index is outside the
\* buffer, every cell named by pairs 1..k-1 is already Alive in the
\* Universe, no cell named only by pairs after k has been changed, and all
\* other cells keep their prior value.
C13_SetCellsNoRollback ==
    Explored =>
        \A list \in PairLists :
            \A r \in {set_cells(Universe, list)} :
                r.fault # "none" =>
                    /\ r.fault = "index"
                    /\ r.n < Len(list)
                    /\ list[r.n + 1][1] * width + list[r.n + 1][2] >= Len(cells)
                    /\ \A k \in 1..r.n :
                          list[k][1] * width + list[k][2] < Len(cells)
                    /\ r.u.width = width
                    /\ r.u.height = height
                    /\ Len(r.u.cells) = Len(cells)
                    /\ \A i \in 0..(Len(cells) - 1) :
                          CellAt(r.u, i) =
                              IF i \in IndicesOf(Universe, list, r.n)
                              THEN Alive ELSE CellAt(Universe, i)

\* set_cells has faulted at its second pair on an all-Dead grid of several
\* cells, and the cell of its first pair is Alive.
C13_Witness ==
    /\ last.op = "set_cells"
    /\ last.fault = "index"
    /\ last.n = 1
    /\ Len(cells) >= 2
    /\ Cardinality({i \in 1..Len(cells) : cells[i] = Alive}) = 1

(* ------------------------------- C14 ---------------------------------- *)
\* The 8 offsets (dr, dc) of {-1, 0, 1}^2 other than (0, 0).
EightOffsets == ({-1, 0, 1} \X {-1, 0, 1}) \ {<<0, 0>>}

\* The cell an offset leads to from (row, column), wrapped.
WrappedPlace(u, row, column, d) ==
    <<(row + d[1] + u.height) % u.height, (column + d[2] + u.width) % u.width>>

\* C14: for every grid with width >= 1 and height >= 1 and every in-range
\* (row, column), live_neighbor_count(row, column) is the sum over the 8
\* offsets (dr, dc) other than (0, 0) of the 0/1 value of the cell at
\* ((row + dr + height) mod height, (column + dc + width) mod width); the
\* wrapped coordinates are in range and the result is between 0 and 8.
C14_CountIsSumOverEightOffsets ==
    (width >= 1 /\ height >= 1) =>
        \A p \in Places(Universe) :
            /\ \A d \in EightOffsets :
                  WrappedPlace(Universe, p[1], p[2], d) \in Places(Universe)
            /\ live_neighbor_count(Universe, p[1], p[2]) =
                  Cardinality({d \in EightOffsets :
                      \E q \in {WrappedPlace(Universe, p[1], p[2], d)} :
                          Content(Universe, q[1], q[2]) = Alive})
            /\ live_neighbor_count(Universe, p[1], p[2]) \in 0..8

\* One tick has run on a grid that is not square in which the Dead corner
\* cell (0, 0) had exactly its three wrapped neighbours of the last row
\* Alive, and the cell was born.
C14_Witness ==
    /\ last.op = "tick"
    /\ gen = 1
    /\ seed.width >= 3
    /\ seed.height >= 3
    /\ seed.width # seed.height
    /\ live_neighbor_count(seed, 0, 0) = 3
    /\ Content(seed, seed.height - 1, seed.width - 1) = Alive
    /\ Content(seed, seed.height - 1, 0) = Alive
    /\ Content(seed, seed.height - 1, 1) = Alive
    /\ Content(seed, 0, 0) = Dead
    /\ Content(Universe, 0, 0) = Alive

(* ------------------------------- C15 ---------------------------------- *)
\* The grid that differs from u only in the state of the cell at
\* (row, column).
Flipped(u, row, column) ==
    [u EXCEPT !.cells[row * u.width + column + 1] =
                  IF @ = Alive THEN Dead ELSE Alive]

\* The count at (row, column) does not depend on the cell's own state.
OwnStateNotCounted(u) ==
    \A p \in Places(u) :
        live_neighbor_count(u, p[1], p[2]) =
            live_neighbor_count(Flipped(u, p[1], p[2]), p[1], p[2])

\* C15 as stated: a cell is never its own neighbour: on every grid with
\* width >= 1 and height >= 1 (1xN, Nx1 and 2x2 included) and every in-range
\* (row, column), two grids that differ only in the cell at (row, column)
\* give the same live_neighbor_count(row, column).
C15_NeverOwnNeighbour ==
    (width >= 1 /\ height >= 1) => OwnStateNotCounted(Universe)

\* C15 as amended: the same on every grid with width >= 2 and height >= 2
\* (2x2 included).
C15_NotOwnNeighbourFromTwo ==
    (width >= 2 /\ height >= 2) => OwnStateNotCounted(Universe)

\* One tick has run on the 2x2 grid whose only Alive cell was (0, 0): the
\* cell counted no neighbour and died.
C15_Witness ==
    /\ last.op = "tick"
    /\ gen = 1
    /\ seed = GridOf(2, 2, {<<0, 0>>})
    /\ live_neighbor_count(seed, 0, 0) = 0
    /\ live_neighbor_count(Flipped(seed, 0, 0), 0, 0) = 0
    /\ Content(Universe, 0, 0) = Dead

\* On a grid one cell wide or one cell high a cell is reached from itself
\* by the offsets along that dimension, and its own state is counted: 8
\* times on the 1x1 grid, twice otherwise.
OwnStateCountedOnThinGrids ==
    (width >= 1 /\ height >= 1 /\ (width = 1 \/ height = 1)) =>
        \A p \in Places(Universe) :
            \E a \in {live_neighbor_count(Universe, p[1], p[2])},
               b \in {live_neighbor_count(Flipped(Universe, p[1], p[2]),
                                           p[1], p[2])} :
                IF width = 1 /\ height = 1 THEN {a, b} = {0, 8}
                ELSE a - b \in {2, 0 - 2}

(* ------------------------------- C16 ---------------------------------- *)
\* tick on u returns without a panic, and on a grid with a zero dimension
\* leaves the empty buffer, width and height as they are.
TickCompletes(u, r) ==
    /\ r.fault = "none"
    /\ ZeroModulus(u) =>
          /\ r.u = u
          /\ r.u.cells = <<>>

\* C16: modulo by a zero dimension is never reached: after every sequence
\* of public operations, set_width(0) or set_height(0) followed by tick
\* included, tick completes without fault, never evaluates
\* live_neighbor_count while width or height is 0, and on a grid with a zero
\* dimension leaves the (empty) cell buffer, width and height unchanged.
C16_TickNeverFaults ==
    /\ Explored => \A r \in {Tick(Universe)} : TickCompletes(Universe, r)
    /\ last.op = "tick" => last.fault = "none"

\* C16 in the states whose product fits u32.
TickNeverFaultsWhenFits ==
    ~MulOverflows(width, height) => C16_TickNeverFaults

\* In no state does tick reach live_neighbor_count's modulo with a zero
\* dimension.
TickNeverDividesByZero ==
    /\ Explored => \A r \in {Tick(Universe)} : r.fault # "modulo"
    /\ last.fault # "modulo"

\* tick has returned on a grid with a zero dimension.
TickedOnZeroDimension ==
    /\ last.op = "tick"
    /\ last.fault = "none"
    /\ ZeroModulus(Universe)

(* ------------------------------- C17 ---------------------------------- *)
\* toggle_cell(row, column) on u changed exactly the cell at linear index
\* row * width + column, from Dead to Alive or from Alive to Dead.
ToggledOne(u, r, row, column) ==
    /\ r.fault = "none"
    /\ r.u.width = u.width
    /\ r.u.height = u.height
    /\ Len(r.u.cells) = Len(u.cells)
    /\ row * u.width + column < Len(u.cells)
    /\ \A i \in 0..(Len(u.cells) - 1) :
          IF i = row * u.width + column
          THEN {CellAt(u, i), CellAt(r.u, i)} = {Dead, Alive}
          ELSE CellAt(r.u, i) = CellAt(u, i)

\* C17: for every reachable state and every in-range (row, column),
\* toggle_cell(row, column) changes exactly one cell, the one at linear
\* index row * width + column, from Dead to Alive or from Alive to Dead, and
\* leaves every other cell, width and height unchanged.
C17_ToggleChangesOneCell ==
    \A rc \in Coords :
        InRange(Universe, rc[1], rc[2]) =>
            \A r \in {toggle_cell(Universe, rc[1], rc[2])} :
                ToggledOne(Universe, r, rc[1], rc[2])

\* C17 in the states whose product fits u32.
ToggleChangesOneCellWhenFits ==
    ~MulOverflows(width, height) => C17_ToggleChangesOneCell

(* ------------------------------- C18 ---------------------------------- *)
\* C18: width and height change only through set_width and set_height:
\* tick, toggle_cell and set_cells leave width and height unchanged, and
\* width(), height(), get_cells() and render() leave the whole Universe
\* state (width, height and every cell) unchanged.
C18_OnlyResizeChangesDimensions ==
    [][/\ last'.op \in {"tick", "toggle_cell", "set_cells"} =>
            /\ width' = width
            /\ height' = height
       /\ last'.op \in {"width", "height", "get_cells", "render"} =>
            /\ width' = width
            /\ height' = height
            /\ cells' = cells]_vars

\* render() has returned the text of a grid that is not square, has Alive
\* cells and has been stepped by tick.
C18_Witness ==
    /\ last.op = "render"
    /\ last.fault = "none"
    /\ gen >= 1
    /\ width # height
    /\ Len(cells) >= 2
    /\ \E i \in 1..Len(cells) : cells[i] = Alive
    /\ Len(ret) = Len(cells) + height

(* ------------------------------- C19 ---------------------------------- *)
\* The in-range (row, column) pairs get_index is tried on: those of the
\* first rows and columns and the last cell of a grid of the size of
\* new()'s.
IndexProbes(u) ==
    {p \in Places(u) \cup {<<NewHeight - 1, NewWidth - 1>>} :
        InRange(u, p[1], p[2])}

\* C19: for every grid and every in-range row < height and column < width,
\* get_index(row, column) equals row * width + column, lies in
\* [0, width * height), and distinct in-range pairs give distinct indices.
C19_GetIndexIsRowMajor ==
    \A p \in IndexProbes(Universe) :
        /\ ~IndexOverflows(Universe, p[1], p[2])
        /\ \A i \in {get_index(Universe, p[1], p[2])} :
              /\ i = p[1] * width + p[2]
              /\ i >= 0
              /\ i \div width < height
              /\ \A q \in IndexProbes(Universe) :
                    q # p => get_index(Universe, q[1], q[2]) # i

\* One tick has run on a grid that is not square: the first cell of row 1
\* is at index width, the last cell at the buffer's last index, and tick
\* has changed the cell of row 1, column 0 at that index.
C19_Witness ==
    /\ last.op = "tick"
    /\ gen = 1
    /\ width >= 2
    /\ height >= 3
    /\ width # height
    /\ get_index(Universe, 1, 0) = width
    /\ get_index(Universe, height - 1, width - 1) = Len(cells) - 1
    /\ cells[width + 1] # seed.cells[width + 1]

====
